---- MODULE Spec2Model ----
(***************************************************************************)
(* Model of src/mydreamer/painter/LSDS_pipeline.py: the LSDSPipeline       *)
(* score-distillation pipeline (noise-level scheduler, text conditioning,  *)
(* noise-prediction adapter, SDS variants) and the SpecifyGradient         *)
(* autograd function.                                                      *)
(*                                                                         *)
(* Conventions.                                                            *)
(*  - A Python string is a sequence of one-character strings, so that      *)
(*    re.match, str.split, float() and int() are computed, not assumed.    *)
(*  - A ratio (a Python float such as 0.5) is an exact rational <<n, d>>.  *)
(*    Binary rounding of the float product is not modelled.                *)
(*  - A tensor is a sequence of rows along the batch axis (dim 0); a row   *)
(*    is one float, every operation of the pipeline being elementwise.     *)
(*  - A float is <<k, n, d>>: <<0, n, d>> the finite value n/d in lowest   *)
(*    terms, <<1, 1, 1>> +Inf, <<1, -1, 1>> -Inf, <<2, 0, 1>> NaN; finite  *)
(*    arithmetic is exact (no rounding, no overflow).                      *)
(***************************************************************************)
EXTENDS Integers, Sequences, FiniteSets, TLC

VARIABLES
    t_range,              \* self.t_range: Some(<<min_ratio, max_ratio>>), None if unset
    t_schedule,           \* self.t_schedule: Some(policy string), None if unset
    num_train_timesteps,  \* self.num_train_timesteps: Some(T), None if unset
    sched,                \* outcome of the last schedule_timestep call
    ctx,                  \* SpecifyGradient: the tensors saved for backward
    bridge,               \* SpecifyGradient: the last forward / backward call
    emb,                  \* the last get_text_embeddings call
    pn,                   \* the last predict_noise call
    call,                 \* the last call of an SDS variant
    iv,                   \* the last get_interactive_value call
    loop                  \* the denoising loop of __call__

attrVars == <<t_range, t_schedule, num_train_timesteps>>
schedVars == <<sched>>
bridgeVars == <<ctx, bridge>>
noiseVars == <<emb, pn>>
variantVars == <<call>>
samplingVars == <<iv, loop>>
vars == <<attrVars, schedVars, bridgeVars, noiseVars, variantVars, samplingVars>>

----------------------------------------------------------------------------
(* Bounds of the model *)

\* scheduler.config.num_train_timesteps (1000 for Stable Diffusion), scaled down
NumTrainTimesteps == 10
\* corridor ratios are the multiples of 1/RatioDen in [0, 1]
RatioDen == 4
\* optimization steps are 0 .. MaxStep
MaxStep == 3
\* batch sizes are 1 .. MaxBatch
MaxBatch == 2
\* finite tensor entries are -MaxVal .. MaxVal
MaxVal == 1
\* math.sqrt of a ratio that is no perfect square is rounded down to a
\* multiple of 1/SqrtPrec
SqrtPrec == 2
\* the total_step argument of sds_poc (1000 by default), scaled down
TotalStep == 4
\* the start_latent_interpolation argument of sds_poc (300 by default)
StartStep == 1
\* num_inference_steps of __call__ is 1 .. MaxInferenceSteps
MaxInferenceSteps == 3
\* callback_steps of __call__ is 1 .. MaxCallbackSteps
MaxCallbackSteps == 3
\* denoise_step and total_denoise_step of get_interactive_value are 0 .. MaxDenoise
MaxDenoise == 2

----------------------------------------------------------------------------
(* Constants of the program *)

\* torch.finfo(dtype).max: what torch.nan_to_num puts for +Inf (and its
\* negation for -Inf); a stand-in larger than every other modelled value
FloatMax == 1000000
\* guidance_scale of the plain-SDS oracle call of sds_poc
PlainGuidanceScale == 100
\* the lag of the 'pre' prediction of score_distillation_sampling_0907
Lag == 20

----------------------------------------------------------------------------
(* Python values *)

\* an absent value (None, or an attribute never set) and a present one
None == <<>>
Some(x) == <<x>>

----------------------------------------------------------------------------
(* Python strings *)

Digits == {"0", "1", "2", "3", "4", "5", "6", "7", "8", "9"}

DigitSeq == <<"0", "1", "2", "3", "4", "5", "6", "7", "8", "9">>

DigitVal(c) == (CHOOSE i \in 1..10 : DigitSeq[i] = c) - 1

RECURSIVE Pow10(_)
Pow10(n) == IF n = 0 THEN 1 ELSE 10 * Pow10(n - 1)

\* the characters of s from position i on
From(s, i) == SubSeq(s, i, Len(s))

\* s starts with the characters of p
StartsWith(s, p) == Len(s) >= Len(p) /\ SubSeq(s, 1, Len(p)) = p

\* length of the longest run of characters of set cs that starts at position i
RECURSIVE RunLen(_, _, _)
RunLen(s, i, cs) ==
    IF i <= Len(s) /\ s[i] \in cs THEN 1 + RunLen(s, i + 1, cs) ELSE 0

\* re.match(tag + r"_([\d.]+)_(\d+)", s): a match of a PREFIX of s
ReMatch(tag, s) ==
    LET p == tag \o <<"_">>
        k == RunLen(s, Len(p) + 1, Digits \cup {"."})
        u == Len(p) + k + 1       \* where the second "_" has to be
    IN  /\ StartsWith(s, p)
        /\ k >= 1
        /\ u + 1 <= Len(s)
        /\ s[u] = "_"
        /\ s[u + 1] \in Digits

\* str.split('_')
RECURSIVE Split(_)
Split(s) ==
    LET k == RunLen(s, 1, {c \in {s[i] : i \in 1..Len(s)} : c # "_"})
    IN  IF k = Len(s) THEN <<s>>
        ELSE <<SubSeq(s, 1, k)>> \o Split(From(s, k + 2))

Count(s, c) == Cardinality({i \in 1..Len(s) : s[i] = c})

\* float(x) raises ValueError unless x is digits with at most one "."
FloatOk(x) ==
    /\ \A i \in 1..Len(x) : x[i] \in Digits \cup {"."}
    /\ Count(x, ".") <= 1
    /\ \E i \in 1..Len(x) : x[i] \in Digits

\* the decimal digits of x, most significant first, as a number
RECURSIVE DigitsVal(_)
DigitsVal(x) ==
    IF Len(x) = 0 THEN 0
    ELSE 10 * DigitsVal(SubSeq(x, 1, Len(x) - 1)) + DigitVal(x[Len(x)])

\* float(x) as the exact rational <<numerator, denominator>>
FloatVal(x) ==
    LET dot  == IF Count(x, ".") = 0 THEN Len(x) + 1
                ELSE CHOOSE i \in 1..Len(x) : x[i] = "."
        frac == Len(x) - dot
        ds   == SubSeq(x, 1, dot - 1) \o From(x, dot + 1)
    IN  IF frac <= 0 THEN <<DigitsVal(ds), 1>>
        ELSE <<DigitsVal(ds), Pow10(frac)>>

\* int(x) raises ValueError unless x is a non-empty run of digits
IntOk(x) == Len(x) >= 1 /\ \A i \in 1..Len(x) : x[i] \in Digits

IntVal(x) == DigitsVal(x)

----------------------------------------------------------------------------
(* Noise-level scheduler: LSDSPipeline.schedule_timestep *)

\* int(self.num_train_timesteps * r) for a ratio r >= 0: truncation
StepOf(T, r) == (T * r[1]) \div r[2]

\* a draw whose upper end is one too high
RandintRangeOffByOne(low, high) == low..(high + 1)

\* torch.randint(low, high + 1, [1]): the values it can return; it raises
\* RuntimeError when the range low .. high is empty
RandintRange(low, high) == low..high

Randint == <<"r", "a", "n", "d", "i", "n", "t">>

Timestep(t, lo, hi) == [kind |-> "ok", t |-> t, lo |-> lo, hi |-> hi]

Raise(e) == [kind |-> e, t |-> -1, lo |-> -1, hi |-> -1]

\* the draws of one corridor, or the error torch.randint raises
Draw(lo, hi) ==
    IF RandintRange(lo, hi) = {} THEN {Raise("RuntimeError")}
    ELSE {Timestep(t, lo, hi) : t \in RandintRange(lo, hi)}

\* the anneal branches: tag, t_val, step_upd = t_schedule.split('_')
Anneal(tag, step, T, sch, min_step, max_step) ==
    LET parts == Split(sch)
    IN  IF Len(parts) # 3 THEN {Raise("ValueError")}
        ELSE IF ~FloatOk(parts[2]) THEN {Raise("ValueError")}
        ELSE IF ~IntOk(parts[3]) THEN {Raise("ValueError")}
        ELSE LET t_val    == FloatVal(parts[2])
                 step_upd == IntVal(parts[3])
                 upd      == step >= step_upd
             IN  IF tag = <<"m", "a", "x">>
                 THEN Draw(min_step, IF upd THEN StepOf(T, t_val) ELSE max_step)
                 ELSE Draw(IF upd THEN StepOf(T, t_val) ELSE min_step, max_step)

\* every outcome schedule_timestep(step) can have on a pipeline whose
\* attributes are T, rng and sch
ScheduleOutcomes(step, T, rng, sch) ==
    LET min_step == StepOf(T, rng[1])
        max_step == StepOf(T, rng[2])
    IN  IF sch = Randint THEN Draw(min_step, max_step)
        ELSE IF ReMatch(<<"m", "a", "x">>, sch)
             THEN Anneal(<<"m", "a", "x">>, step, T, sch, min_step, max_step)
        ELSE IF ReMatch(<<"m", "i", "n">>, sch)
             THEN Anneal(<<"m", "i", "n">>, step, T, sch, min_step, max_step)
        ELSE {Raise("NotImplementedError")}

----------------------------------------------------------------------------
(* Configurations of the pipeline *)

Ratios == {<<n, RatioDen>> : n \in 0..RatioDen}

\* r1 <= r2 for ratios
RatioLeq(r1, r2) == r1[1] * r2[2] <= r2[1] * r1[2]

\* the corridors with 0 <= min_ratio <= max_ratio <= 1
Corridors == {c \in Ratios \X Ratios : RatioLeq(c[1], c[2])}

\* the policy strings a pipeline is configured with
Policies ==
    { Randint,
      <<"m", "a", "x", "_", "0", ".", "5", "_", "2">>,
      <<"m", "i", "n", "_", "0", ".", "5", "_", "2">>,
      <<"m", "a", "x", "_", ".", "3", "_", "1">>,
      <<"m", "i", "n", "_", "0", ".", "7", "5", "_", "1">>,
      <<"m", "a", "x", "_", "1", ".", "_", "0">>,
      <<"m", "a", "x", "_", "1", ".", "5", "_", "1">>,
      <<"m", "i", "n", "_", "0", "_", "1", "0">>,
      <<"l", "i", "n", "e", "a", "r">>,
      <<"r", "a", "n", "d", "i", "n", "t", "1">>,
      <<"m", "a", "x", "_", "0", ".", "5">>,
      <<"m", "a", "x", "_", "_", "2">>,
      <<"m", "a", "x", "_", "0", ".", "5", "_", "x">>,
      <<"x", "m", "a", "x", "_", "0", ".", "5", "_", "2">>,
      <<"m", "a", "x", "_", "0", ".", "5", "_", "2", "_", "x">>,
      <<"m", "a", "x", "_", "0", ".", "5", "_", "2", "a", "b", "c">>,
      <<"m", "i", "n", "_", "1", ".", "2", ".", "3", "_", "1">>,
      <<"m", "i", "n", "_", ".", "_", "1">> }

\* s is 'max_<v>_<s>' or 'min_<v>_<s>' with numeric v and integer s
IsAnneal(s) ==
    LET parts == Split(s)
    IN  /\ Len(parts) = 3
        /\ parts[1] \in {<<"m", "a", "x">>, <<"m", "i", "n">>}
        /\ FloatOk(parts[2])
        /\ IntOk(parts[3])

Recognized(s) == s = Randint \/ IsAnneal(s)

NoCall == [kind |-> "none", t |-> -1, lo |-> -1, hi |-> -1]

----------------------------------------------------------------------------
(* Floats and tensors *)

\* the finite rational n/d in lowest terms (d > 0)
RECURSIVE Gcd(_, _)
Gcd(a, b) == IF b = 0 THEN a ELSE Gcd(b, a % b)

Abs(n) == IF n < 0 THEN -n ELSE n

Rat(n, d) ==
    LET g == Gcd(Abs(n), Abs(d))
        s == IF d < 0 THEN -1 ELSE 1
    IN  <<0, (s * n) \div g, (s * d) \div g>>

Fin(v) == <<0, v, 1>>
PosInf == <<1, 1, 1>>
NegInf == <<1, -1, 1>>
NaN == <<2, 0, 1>>

IsFin(a) == a[1] = 0
IsInf(a) == a[1] = 1
IsNaN(a) == a[1] = 2

Sign(n) == IF n > 0 THEN 1 ELSE IF n < 0 THEN -1 ELSE 0

\* IEEE product
FMul(a, b) ==
    IF IsNaN(a) \/ IsNaN(b) THEN NaN
    ELSE IF IsFin(a) /\ IsFin(b) THEN Rat(a[2] * b[2], a[3] * b[3])
    ELSE IF Sign(a[2]) * Sign(b[2]) = 0 THEN NaN
    ELSE <<1, Sign(a[2]) * Sign(b[2]), 1>>

\* IEEE sum
FAdd(a, b) ==
    IF IsNaN(a) \/ IsNaN(b) THEN NaN
    ELSE IF IsFin(a) /\ IsFin(b) THEN Rat(a[2] * b[3] + b[2] * a[3], a[3] * b[3])
    ELSE IF IsInf(a) /\ IsInf(b) THEN (IF a = b THEN a ELSE NaN)
    ELSE IF IsInf(a) THEN a ELSE b

FNeg(a) == <<a[1], -a[2], a[3]>>

FSub(a, b) == FAdd(a, FNeg(b))

\* a > b; false when either is NaN
FGt(a, b) ==
    /\ ~IsNaN(a)
    /\ ~IsNaN(b)
    /\ IF IsFin(a) /\ IsFin(b) THEN a[2] * b[3] > b[2] * a[3]
       ELSE IF IsInf(a) THEN a[2] = 1 /\ b # PosInf
       ELSE b[2] = -1

FinVals == {Fin(v) : v \in (-MaxVal)..MaxVal}

\* tensors of n rows over the values vs
Tensors(n, vs) == [1..n -> vs]

\* tensor * scalar
Scale(x, u) == [i \in 1..Len(x) |-> FMul(x[i], u)]

----------------------------------------------------------------------------
(* Gradient-injection bridge: SpecifyGradient *)

\* forward(ctx, input_tensor, gt_grad): what is saved, what is returned
ForwardSaved(input_tensor, gt_grad) == <<gt_grad>>

ForwardResult(input_tensor, gt_grad) == <<Fin(1)>>

\* a backward pass that drops the upstream scale
BackwardUnscaled(saved, grad_scale) == <<Some(saved[1]), None>>

\* backward(ctx, grad_scale): the gradients of (input_tensor, gt_grad)
BackwardResult(saved, grad_scale) ==
    LET gt_grad == saved[1]
    IN  <<Some(Scale(gt_grad, grad_scale)), None>>

BridgeIdle ==
    [op |-> "none", input_tensor |-> <<>>, gt_grad |-> <<>>, upstream |-> Fin(0),
     loss |-> <<>>, grads |-> <<>>]

\* loss = SpecifyGradient.apply(input_tensor, gt_grad)
Forward(input_tensor, gt_grad) ==
    /\ ctx' = ForwardSaved(input_tensor, gt_grad)
    /\ bridge' = [op |-> "forward", input_tensor |-> input_tensor,
                  gt_grad |-> gt_grad, upstream |-> Fin(0),
                  loss |-> ForwardResult(input_tensor, gt_grad), grads |-> <<>>]

\* loss.backward() with the upstream gradient u of the loss
Backward(u) ==
    /\ bridge.op # "none"
    /\ bridge' = [bridge EXCEPT !.op = "backward", !.upstream = u,
                                !.grads = BackwardResult(ctx, u)]
    /\ UNCHANGED ctx

----------------------------------------------------------------------------
(* Text conditioning: LSDSPipeline.get_text_embeddings *)

\* a prompt argument: one string, or a list of strings
Str(x) == [list |-> FALSE, items |-> <<x>>]
List(xs) == [list |-> TRUE, items |-> xs]

\* [x] * n
Repeat(x, n) == [i \in 1..n |-> x]

\* the text encoder's embedding of one text
Embed(text) == <<"embedding", text>>

\* tokenizer(prompt, padding="max_length", ...) then text_encoder(ids)[0]:
\* one row per string, a single string being a batch of one
EncodeText(prompt) == [i \in 1..Len(prompt.items) |-> Embed(prompt.items[i])]

\* get_text_embeddings(prompt, negative_prompt, batch_size, guidance_scale);
\* negative_prompt is None or Some(prompt)
GetTextEmbeddings(prompt, negative_prompt, batch_size, guidance_scale) ==
    LET text_embeddings == EncodeText(prompt)
    IN  IF FGt(guidance_scale, Fin(1))
        THEN LET neg == IF negative_prompt = None
                        THEN List(Repeat("", batch_size))
                        ELSE negative_prompt[1]
             IN  EncodeText(neg) \o text_embeddings
        ELSE text_embeddings

EmbIdle ==
    [op |-> "none", prompt |-> Str(""), negative_prompt |-> None, batch_size |-> 0,
     guidance_scale |-> Fin(0), out |-> <<>>]

TextEmbeddings(prompt, negative_prompt, batch_size, guidance_scale) ==
    emb' = [op |-> "get_text_embeddings", prompt |-> prompt,
            negative_prompt |-> negative_prompt, batch_size |-> batch_size,
            guidance_scale |-> guidance_scale,
            out |-> GetTextEmbeddings(prompt, negative_prompt, batch_size,
                                      guidance_scale)]

----------------------------------------------------------------------------
(* Noise-prediction adapter: LSDSPipeline.predict_noise *)

\* torch.chunk(2, dim=0): chunks of ceil(n/2) rows; one chunk when n = 1
Chunk2(x) ==
    LET c == (Len(x) + 1) \div 2
    IN  IF Len(x) <= c THEN <<x>>
        ELSE <<SubSeq(x, 1, c), SubSeq(x, c + 1, Len(x))>>

\* the batch sizes m and n broadcast against each other
Broadcastable(m, n) == m = n \/ m = 1 \/ n = 1

\* row i of x broadcast to a larger batch
Row(x, i) == x[IF Len(x) = 1 THEN 1 ELSE i]

\* noise_pred_uncon + guidance_scale * (noise_pred_con - noise_pred_uncon)
Guide(uncon, con, guidance_scale) ==
    LET n == IF Len(uncon) >= Len(con) THEN Len(uncon) ELSE Len(con)
    IN  [i \in 1..n |->
            FAdd(Row(uncon, i), FMul(guidance_scale, FSub(Row(con, i), Row(uncon, i))))]

\* scheduler.add_noise indexes alphas_cumprod[t]: t has to be an index
\* (a negative index counts from the end)
IsIndex(t, T) == t \in (-T)..(T - 1)

\* rows of the model input: the noisy latents, doubled when guidance_scale > 1
ModelInputRows(latents, guidance_scale) ==
    IF FGt(guidance_scale, Fin(1)) THEN 2 * Len(latents) ELSE Len(latents)

PnRecord(kind, latents, noise, t, embeddings, flag, gs, rows, raw, out) ==
    [kind |-> kind, latents |-> latents, noise |-> noise, add_noise_t |-> t,
     unet_t |-> t, embeddings |-> embeddings,
     do_classifier_free_guidance |-> flag, guidance_scale |-> gs,
     rows_in |-> rows, raw |-> raw, out |-> out, no_grad |-> TRUE]

\* predict_noise(latents, noise, time_step, embeddings,
\*               do_classifier_free_guidance, guidance_scale) on a scheduler of
\* T timesteps. raw is what the denoising network returns for the model input,
\* tolerant whether it accepts an embedding batch of another size than the
\* model input's (it is free to raise RuntimeError instead).
PredictNoise(latents, noise, time_step, embeddings, flag, gs, T, raw, tolerant) ==
    LET rows == ModelInputRows(latents, gs)
        rec(kind, r, out) ==
            PnRecord(kind, latents, noise, time_step, embeddings, flag, gs, rows, r, out)
    IN  IF ~IsIndex(time_step, T) THEN rec("IndexError", <<>>, <<>>)
        ELSE IF Len(embeddings) # rows /\ ~tolerant THEN rec("RuntimeError", <<>>, <<>>)
        ELSE IF ~flag THEN rec("ok", raw, raw)
        ELSE LET ch == Chunk2(raw)
             IN  IF Len(ch) # 2 THEN rec("ValueError", raw, <<>>)
                 ELSE IF ~Broadcastable(Len(ch[1]), Len(ch[2]))
                      THEN rec("RuntimeError", raw, <<>>)
                 ELSE rec("ok", raw, Guide(ch[1], ch[2], gs))

PnIdle ==
    PnRecord("none", <<>>, <<>>, 0, <<>>, FALSE, Fin(0), 0, <<>>, <<>>)

----------------------------------------------------------------------------
(* Helpers of the SDS variants *)

\* an elementwise binary operation with broadcasting along the batch axis
Zip(F(_, _), x, y) ==
    LET n == IF Len(x) >= Len(y) THEN Len(x) ELSE Len(y)
    IN  [i \in 1..n |-> F(Row(x, i), Row(y, i))]

\* scheduler.alphas_cumprod[t] on a scheduler of T timesteps: a decreasing
\* table of values in (0, 1); a negative index counts from the end
AlphasCumprod(t, T) ==
    LET i == IF t < 0 THEN t + T ELSE t
    IN  Rat(T - i, T + 1)

\* torch.nan_to_num(grad) with its default arguments
NanToNum(x) ==
    [i \in 1..Len(x) |->
        IF IsNaN(x[i]) THEN Fin(0)
        ELSE IF x[i] = PosInf THEN Fin(FloatMax)
        ELSE IF x[i] = NegInf THEN Fin(-FloatMax)
        ELSE x[i]]

RECURSIVE Sum(_)
Sum(x) == IF Len(x) = 0 THEN Fin(0) ELSE FAdd(x[1], Sum(SubSeq(x, 2, Len(x))))

\* grad.mean()
Mean(x) == FMul(Sum(x), Rat(1, Len(x)))

\* grad_scale * w * (a - b)
GradEstimate(grad_scale, w, a, b) ==
    LET c == FMul(grad_scale, w)
    IN  [i \in 1..Len(Zip(FSub, a, b)) |-> FMul(c, Zip(FSub, a, b)[i])]

----------------------------------------------------------------------------
(* The interactive value policy: LSDSPipeline.get_interactive_value *)

\* the largest r with r*r <= n
ISqrt(n) == CHOOSE r \in 0..n : r * r <= n /\ n < (r + 1) * (r + 1)

IsSquare(n) == ISqrt(n) * ISqrt(n) = n

\* math.sqrt(q) for a finite q >= 0: exact for the ratio of two squares
Sqrt(q) ==
    IF IsSquare(q[2]) /\ IsSquare(q[3]) THEN Rat(ISqrt(q[2]), ISqrt(q[3]))
    ELSE Rat(ISqrt((q[2] * SqrtPrec * SqrtPrec) \div q[3]), SqrtPrec)

InteractiveError(e) == [kind |-> e, value |-> NaN]

\* a get_interactive_value without the try / except around the scale
GetInteractiveValueUnguarded(max_value, min_value, step, total_step, denoise_step, total_denoise_step) ==
    IF total_step = 0 \/ total_denoise_step = 0
    THEN InteractiveError("ZeroDivisionError")
    ELSE IF (step < 0) # (total_step < 0) /\ step # 0
         THEN InteractiveError("ValueError")
    ELSE [kind |-> "ok",
          value |-> FMul(FSub(max_value,
                              FMul(FSub(max_value, min_value),
                                   Sqrt(Rat(step, total_step)))),
                         FSub(Fin(1), Rat(denoise_step, total_denoise_step)))]

\* get_interactive_value(max_value, min_value, step, total_step,
\*                       denoise_step, total_denoise_step), steps being ints
GetInteractiveValue(max_value, min_value, step, total_step, denoise_step, total_denoise_step) ==
    IF total_step = 0 THEN InteractiveError("ZeroDivisionError")
    ELSE IF (step < 0) # (total_step < 0) /\ step # 0
         THEN InteractiveError("ValueError")
    ELSE LET base_value ==
                 FSub(max_value,
                      FMul(FSub(max_value, min_value), Sqrt(Rat(step, total_step))))
             denoise_scale ==
                 IF total_denoise_step = 0 THEN Fin(1)
                 ELSE FSub(Fin(1), Rat(denoise_step, total_denoise_step))
         IN  [kind |-> "ok", value |-> FMul(base_value, denoise_scale)]

\* alpha_max, alpha_min = list(map(float, range.split('_'))) and then
\* get_interactive_value(..., denoise_step=0, total_denoise_step=0)
RangeValue(range, step, total_step) ==
    LET parts == Split(range)
    IN  IF \E i \in 1..Len(parts) : ~FloatOk(parts[i])
        THEN InteractiveError("ValueError")
        ELSE IF Len(parts) # 2 THEN InteractiveError("ValueError")
        ELSE LET hi == FloatVal(parts[1])
                 lo == FloatVal(parts[2])
             IN  GetInteractiveValue(Rat(hi[1], hi[2]), Rat(lo[1], lo[2]),
                                     step, total_step, 0, 0)

\* the default of alpha_range and gs_range
NoRange == <<"0", "0">>

IvRecord(max_value, min_value, step, total_step, denoise_step, total_denoise_step, r) ==
    [op |-> "get_interactive_value", max_value |-> max_value,
     min_value |-> min_value, step |-> step, total_step |-> total_step,
     denoise_step |-> denoise_step, total_denoise_step |-> total_denoise_step,
     kind |-> r.kind, value |-> r.value]

IvIdle ==
    [op |-> "none"] @@ IvRecord(Fin(0), Fin(0), 0, 0, 0, 0, InteractiveError("none"))

----------------------------------------------------------------------------
(* The sampling loop: LSDSPipeline.__call__, step 7 *)

\* timesteps[i] of a schedule of n timesteps, i counted from 0: descending
TimestepAt(i, n) == n - i

\* if i == len(timesteps) - 1 or ((i + 1) > num_warmup_steps and
\*                                (i + 1) % self.scheduler.order == 0)
ProgressNow(i, n, num_warmup_steps, order) ==
    \/ i = n - 1
    \/ (i + 1) > num_warmup_steps /\ (i + 1) % order = 0

\* if callback is not None and i % callback_steps == 0, inside the progress
\* branch
CallbackNow(i, n, num_warmup_steps, order, has_callback, callback_steps) ==
    /\ ProgressNow(i, n, num_warmup_steps, order)
    /\ has_callback
    /\ i % callback_steps = 0

LoopIdle ==
    [pc |-> "idle", n |-> 0, num_inference_steps |-> 0, order |-> 1,
     num_warmup_steps |-> 0, has_callback |-> FALSE, callback_steps |-> 1,
     i |-> 0, updates |-> 0, progress |-> 0, calls |-> <<>>]

\* steps 0 to 6 of __call__ and the head of step 7: n = len(timesteps) as
\* scheduler.set_timesteps left it
EnterLoop(num_inference_steps, order, n, has_callback, callback_steps) ==
    loop' = [pc |-> "loop", n |-> n, num_inference_steps |-> num_inference_steps,
             order |-> order,
             num_warmup_steps |-> n - num_inference_steps * order,
             has_callback |-> has_callback, callback_steps |-> callback_steps,
             i |-> 0, updates |-> 0, progress |-> 0, calls |-> <<>>]

\* one iteration of for i, t in enumerate(timesteps): the prediction, the
\* scheduler update of latents, then the progress update and the callback;
\* latents are identified by the number of updates they went through
Iterate ==
    LET i == loop.i
        t == TimestepAt(i, loop.n)
        latents == loop.updates + 1
    IN  /\ loop.pc = "loop"
        /\ i < loop.n
        /\ loop' = [loop EXCEPT
               !.i = i + 1,
               !.updates = latents,
               !.progress = IF ProgressNow(i, loop.n, loop.num_warmup_steps, loop.order)
                            THEN @ + 1 ELSE @,
               !.calls = IF CallbackNow(i, loop.n, loop.num_warmup_steps, loop.order,
                                        loop.has_callback, loop.callback_steps)
                         THEN Append(@, <<i, t, latents>>) ELSE @]

\* steps 8 to 10: the loop is exhausted and the image is decoded
LeaveLoop ==
    /\ loop.pc = "loop"
    /\ loop.i = loop.n
    /\ loop' = [loop EXCEPT !.pc = "done"]

----------------------------------------------------------------------------
(* The SDS variants *)

\* what a variant call leaves behind: how it ended (kind "ok" or the error
\* raised), the timestep picked, the noise samples drawn (in order), the
\* embedding batches built, the oracle invocations made, the gradient
\* estimate before and after torch.nan_to_num, and the values returned
Result(kind, t, draws, embs, oracle, grad_est, grad) ==
    [kind |-> kind, t |-> t, draws |-> draws, embs |-> embs, oracle |-> oracle,
     grad_est |-> grad_est, grad |-> grad,
     loss |-> IF kind = "ok" THEN <<Fin(1)>> ELSE <<>>,
     mean |-> IF kind = "ok" THEN Mean(grad) ELSE NaN,
     encode_grad_enabled |-> TRUE]

\* an embedding batch and whether it was computed under torch.no_grad()
EmbTrace(out, no_grad) == [out |-> out, no_grad |-> no_grad]

\* an oracle invocation: the predict_noise record, which latents it noised
\* and which of the call's noise samples it used
Invocation(p, src, noise_draw) == p @@ [src |-> src, noise_draw |-> noise_draw]

\* the common tail of the variants: w = 1 - alphas[t];
\* grad = grad_scale * w * (first - second); grad = torch.nan_to_num(grad);
\* first is None when the variable was never assigned
Finish(t, T, draws, embs, oracle, grad_scale, first, second) ==
    IF ~IsIndex(t, T)
    THEN Result("IndexError", t, draws, embs, oracle, <<>>, <<>>)
    ELSE IF first = None
    THEN Result("UnboundLocalError", t, draws, embs, oracle, <<>>, <<>>)
    ELSE IF ~Broadcastable(Len(first[1]), Len(second))
    THEN Result("RuntimeError", t, draws, embs, oracle, <<>>, <<>>)
    ELSE LET w        == FSub(Fin(1), AlphasCumprod(t, T))
             grad_est == GradEstimate(grad_scale, w, first[1], second)
         IN  Result("ok", t, draws, embs, oracle, grad_est, NanToNum(grad_est))

\* (1 - alpha_value) * noise_pred + alpha_value * noise_pred_o
Blend(alpha_value, noise_pred, noise_pred_o) ==
    LET left(x, y)  == FMul(FSub(Fin(1), alpha_value), x)
        right(x, y) == FMul(alpha_value, y)
        l == Zip(left, noise_pred, noise_pred_o)
        r == Zip(right, noise_pred, noise_pred_o)
    IN  Zip(FAdd, l, r)

\* a blend that is applied from step = start_latent_interpolation on
BlendFromStart(step, start_latent_interpolation) ==
    step >= start_latent_interpolation

\* if step > start_latent_interpolation
BlendNow(step, start_latent_interpolation) == step > start_latent_interpolation

\* the interpolated branch of sds_poc (loss_type == 1), from the two range
\* values on; t is the timestep picked, text_embeddings the embedding batch
SdsPocInterpolated(a, T, t, latents, noise, text_embeddings, raw1, raw2, tolerant, none_error) ==
    LET draws == <<noise>>
        embs  == <<EmbTrace(text_embeddings, FALSE)>>
        fail(e, oracle) == Result(e, t, draws, embs, oracle, <<>>, <<>>)
        alpha == IF a.alpha_range # NoRange
                 THEN Some(RangeValue(a.alpha_range, a.step, a.total_step))
                 ELSE None
        gs    == IF a.gs_range # NoRange
                 THEN Some(RangeValue(a.gs_range, a.step, a.total_step))
                 ELSE None
    IN  IF alpha # None /\ alpha[1].kind # "ok" THEN fail(alpha[1].kind, <<>>)
        ELSE IF gs # None /\ gs[1].kind # "ok" THEN fail(gs[1].kind, <<>>)
        ELSE IF gs = None THEN fail("UnboundLocalError", <<>>)
        ELSE LET p1 == Invocation(
                           PredictNoise(latents, noise, t, text_embeddings, TRUE, gs[1].value,
                                        T, raw1, tolerant),
                           "latents", 1)
             IN  IF p1.kind # "ok" THEN fail(p1.kind, <<p1>>)
                 ELSE IF a.latents_o = None THEN fail(none_error, <<p1>>)
                 ELSE LET p2 == Invocation(
                                    PredictNoise(a.latents_o[1], noise, t, text_embeddings, TRUE,
                                                 gs[1].value, T, raw2, tolerant),
                                    "latents_o", 1)
                      IN  IF p2.kind # "ok" THEN fail(p2.kind, <<p1, p2>>)
                          ELSE IF ~BlendNow(a.step, a.start_latent_interpolation)
                          THEN Finish(t, T, draws, embs, <<p1, p2>>, a.grad_scale,
                                      Some(p1.out), noise)
                          ELSE IF alpha = None
                          THEN fail("UnboundLocalError", <<p1, p2>>)
                          ELSE IF ~Broadcastable(Len(p1.out), Len(p2.out))
                          THEN fail("RuntimeError", <<p1, p2>>)
                          ELSE Finish(t, T, draws, embs, <<p1, p2>>, a.grad_scale,
                                      Some(Blend(alpha[1].value, p1.out, p2.out)),
                                      noise)

\* sds_poc(pred_rgb, step, im_size, prompts, ...) with arguments a on a
\* scheduler of T timesteps. so is the outcome of schedule_timestep, latents
\* the encoded image, noise the sample of torch.randn_like, raw1 and raw2 what
\* the denoising network returns
SdsPoc(a, T, so, latents, noise, raw1, raw2, tolerant, none_error) ==
    LET draws == <<noise>>
    IN  IF so.kind # "ok" THEN Result(so.kind, -1, draws, <<>>, <<>>, <<>>, <<>>)
        ELSE
        LET t    == so.t
            text_embeddings  == GetTextEmbeddings(a.prompts, a.negative_prompts, Len(latents),
                                      a.guidance_scale)
            embs == <<EmbTrace(text_embeddings, FALSE)>>
        IN  IF a.loss_type = 0
            THEN LET p == Invocation(
                              PredictNoise(latents, noise, t, text_embeddings, TRUE,
                                           Fin(PlainGuidanceScale), T, raw1, tolerant),
                              "latents", 1)
                 IN  IF p.kind # "ok"
                     THEN Result(p.kind, t, draws, embs, <<p>>, <<>>, <<>>)
                     ELSE Finish(t, T, draws, embs, <<p>>, a.grad_scale,
                                 Some(p.out), noise)
            ELSE IF a.loss_type = 1
            THEN SdsPocInterpolated(a, T, t, latents, noise, text_embeddings, raw1, raw2,
                                    tolerant, none_error)
            ELSE Finish(t, T, draws, embs, <<>>, a.grad_scale, None, noise)

\* StableDiffusionPipeline._encode_prompt(prompt, device, 1,
\* do_classifier_free_guidance, negative_prompt) of the diffusers library, as
\* the variants call it: [negative; prompt] embeddings under guidance
EncodePrompt(prompt, do_classifier_free_guidance, negative_prompt) ==
    LET batch_size == IF prompt.list THEN Len(prompt.items) ELSE 1
        ok(out)    == [kind |-> "ok", out |-> out]
        fail(e)    == [kind |-> e, out |-> <<>>]
    IN  IF ~do_classifier_free_guidance THEN ok(EncodeText(prompt))
        ELSE IF negative_prompt = None
        THEN ok(EncodeText(List(Repeat("", batch_size))) \o EncodeText(prompt))
        ELSE IF negative_prompt[1].list # prompt.list THEN fail("TypeError")
        ELSE IF Len(negative_prompt[1].items) # batch_size THEN fail("ValueError")
        ELSE ok(EncodeText(negative_prompt[1]) \o EncodeText(prompt))

\* score_distillation_sampling and guided_score_distillation_sampling with
\* arguments a; subtrahend is the tensor the prediction is compared with:
\* None for the sampled noise, Some(latent_ni) for the target latents
SdsPlain(a, T, so, latents, noise, raw, tolerant, subtrahend) ==
    LET do_classifier_free_guidance == FGt(a.guidance_scale, Fin(1))
        e == EncodePrompt(a.prompt, do_classifier_free_guidance, a.negative_prompt)
    IN  IF e.kind # "ok" THEN Result(e.kind, -1, <<>>, <<>>, <<>>, <<>>, <<>>)
        ELSE
        LET embs == <<EmbTrace(e.out, FALSE)>>
        IN  IF so.kind # "ok" THEN Result(so.kind, -1, <<>>, embs, <<>>, <<>>, <<>>)
            ELSE
            LET t == so.t
                p == Invocation(
                         PredictNoise(latents, noise, t, e.out,
                                      do_classifier_free_guidance, a.guidance_scale,
                                      T, raw, tolerant),
                         "latents", 1)
            IN  IF p.kind # "ok"
                THEN Result(p.kind, t, <<noise>>, embs, <<p>>, <<>>, <<>>)
                ELSE Finish(t, T, <<noise>>, embs, <<p>>, a.grad_scale, Some(p.out),
                            IF subtrahend = None THEN noise ELSE subtrahend[1])

\* the predict_noise defined inside score_distillation_sampling_0907: it
\* draws its own noise, and noises and queries the network at the enclosing
\* function's t; its time_step parameter is not read
PredictNoise0907(latents, time_step, embeddings, gs, t, T, noise, raw, tolerant) ==
    PredictNoise(latents, noise, t, embeddings, TRUE, gs, T, raw, tolerant)
        @@ [time_step |-> time_step]

\* score_distillation_sampling_0907 with arguments a; noises[k] is the sample
\* the k-th torch.randn_like returns, raws[k] what the k-th network call returns
Sds0907(a, T, so, latents, noises, raws, tolerant) ==
    IF so.kind # "ok" THEN Result(so.kind, -1, <<>>, <<>>, <<>>, <<>>, <<>>)
    ELSE
    LET t    == so.t
        gs   == a.guidance_scale
        e1   == GetTextEmbeddings(a.prompt, a.negative_prompt, 1, gs)
        e2   == GetTextEmbeddings(a.ref_prompt, a.negative_prompt, 1, gs)
        p1   == Invocation(PredictNoise0907(latents, t, e1, gs, t, T, noises[1],
                                            raws[1], tolerant), "latents", 1)
        p2   == Invocation(PredictNoise0907(latents, t - Lag, e1, gs, t, T, noises[2],
                                            raws[2], tolerant), "latents", 2)
        p3   == Invocation(PredictNoise0907(a.start_code, t, e2, gs, t, T, noises[3],
                                            raws[3], tolerant), "start_code", 3)
        p4   == Invocation(PredictNoise0907(a.start_code, t - Lag, e2, gs, t, T,
                                            noises[4], raws[4], tolerant),
                           "start_code", 4)
        em1  == <<EmbTrace(e1, FALSE)>>
        em2  == <<EmbTrace(e1, FALSE), EmbTrace(e2, FALSE)>>
        fail(e, draws, embs, oracle) == Result(e, t, draws, embs, oracle, <<>>, <<>>)
    IN  IF p1.kind # "ok" THEN fail(p1.kind, SubSeq(noises, 1, 1), em1, <<p1>>)
        ELSE IF p2.kind # "ok" THEN fail(p2.kind, SubSeq(noises, 1, 2), em1, <<p1, p2>>)
        ELSE IF p3.kind # "ok"
        THEN fail(p3.kind, SubSeq(noises, 1, 3), em2, <<p1, p2, p3>>)
        ELSE IF p4.kind # "ok" THEN fail(p4.kind, noises, em2, <<p1, p2, p3, p4>>)
        ELSE IF \/ ~Broadcastable(Len(p2.out), Len(p1.out))
                \/ ~Broadcastable(Len(p4.out), Len(p3.out))
                \/ ~Broadcastable(Len(Zip(FSub, p2.out, p1.out)),
                                  Len(Zip(FSub, p4.out, p3.out)))
        THEN fail("RuntimeError", noises, em2, <<p1, p2, p3, p4>>)
        ELSE LET w        == FSub(Fin(1), AlphasCumprod(t, T))
                 grad     == GradEstimate(a.grad_scale, w, p2.out, p1.out)
                 grad_inv == GradEstimate(a.grad_scale, w, p4.out, p3.out)
                 grad_est == Zip(FAdd, grad, grad_inv)
             IN  Result("ok", t, noises, em2, <<p1, p2, p3, p4>>, grad_est,
                        NanToNum(grad_est))

CallIdle ==
    [op |-> "none", args |-> <<>>, latents |-> <<>>]
        @@ Result("none", -1, <<>>, <<>>, <<>>, <<>>, <<>>)

\* the variant named op ends as r: on success the gradient goes through
\* SpecifyGradient.apply(latents, grad)
Return(op, a, latents, r) ==
    /\ call' = [op |-> op, args |-> a, latents |-> latents] @@ r
    /\ IF r.kind = "ok" THEN Forward(latents, r.grad) ELSE UNCHANGED bridgeVars

----------------------------------------------------------------------------
(* Specifications *)

InitAttrs ==
    /\ num_train_timesteps = Some(NumTrainTimesteps)
    /\ t_range \in {Some(c) : c \in Corridors}
    /\ t_schedule \in {Some(p) : p \in Policies}

\* the scheduler alone: a configured pipeline, schedule_timestep called
InitSched ==
    /\ InitAttrs
    /\ sched = NoCall @@ [step |-> 0]
    /\ ctx = <<>>
    /\ bridge = BridgeIdle
    /\ emb = EmbIdle
    /\ pn = PnIdle
    /\ call = CallIdle
    /\ iv = IvIdle
    /\ loop = LoopIdle

\* self.schedule_timestep(step): reading an attribute that was never set
\* raises AttributeError
ScheduleCall(step, T, rng, sch) ==
    IF T = None \/ rng = None \/ sch = None THEN {Raise("AttributeError")}
    ELSE ScheduleOutcomes(step, T[1], rng[1], sch[1])

ScheduleTimestep(step) ==
    /\ \E o \in ScheduleCall(step, num_train_timesteps, t_range, t_schedule) :
          sched' = o @@ [step |-> step]
    /\ UNCHANGED <<attrVars, bridgeVars, noiseVars, variantVars, samplingVars>>

NextSched == \E step \in 0..MaxStep : ScheduleTimestep(step)

SpecSched == InitSched /\ [][NextSched]_vars

\* the bridge alone: apply and backward on tensors of every batch size
UpstreamVals == {Fin(v) : v \in {-1, 0, 1, 2, 3}}

InitBridge ==
    /\ num_train_timesteps = None
    /\ t_range = None
    /\ t_schedule = None
    /\ sched = NoCall @@ [step |-> 0]
    /\ ctx = <<>>
    /\ bridge = BridgeIdle
    /\ emb = EmbIdle
    /\ pn = PnIdle
    /\ call = CallIdle
    /\ iv = IvIdle
    /\ loop = LoopIdle

\* apply overwrites ctx and the whole record, so a later apply reaches the
\* states a first one reaches: one apply per behaviour covers them all
BridgeForward ==
    /\ bridge.op = "none"
    /\ \E n \in 1..MaxBatch :
          \E x \in Tensors(n, FinVals), g \in Tensors(n, FinVals \cup {Fin(2)}) :
              /\ Forward(x, g)
              /\ UNCHANGED <<attrVars, schedVars, noiseVars, variantVars, samplingVars>>

BridgeBackward ==
    \E u \in UpstreamVals :
        /\ Backward(u)
        /\ UNCHANGED <<attrVars, schedVars, noiseVars, variantVars, samplingVars>>

NextBridge == BridgeForward \/ BridgeBackward

SpecBridge == InitBridge /\ [][NextBridge]_vars

\* the conditioning builder and the prediction adapter alone
GuidanceScales == {Fin(0), Fin(1), Rat(3, 2), Fin(3)}

Texts == {"a", "b"}

\* prompt arguments: a string, or a list of 1 .. MaxBatch strings
Prompts(texts) ==
    {Str(x) : x \in texts}
        \cup UNION {{List(xs) : xs \in [1..n -> texts]} : n \in 1..MaxBatch}

NegativePrompts == {None} \cup {Some(p) : p \in Prompts({"n"})}

PredVals == FinVals \cup {NaN, PosInf}

InitEmbed == InitBridge

EmbedCall ==
    \E prompt \in Prompts(Texts), negative_prompt \in NegativePrompts,
       batch_size \in 1..MaxBatch, guidance_scale \in GuidanceScales :
        /\ TextEmbeddings(prompt, negative_prompt, batch_size, guidance_scale)
        /\ UNCHANGED <<attrVars, schedVars, bridgeVars, pn, variantVars, samplingVars>>

NextEmbed == EmbedCall

SpecEmbed == InitEmbed /\ [][NextEmbed]_vars

InitPredict == InitBridge

PredictCall ==
    /\ pn.kind = "none"
    /\ \E n \in 1..MaxBatch, e \in {1, 2}, flag \in BOOLEAN, gs \in GuidanceScales,
          tolerant \in BOOLEAN, time_step \in {0, NumTrainTimesteps} :
           \E latents \in Tensors(n, {Fin(1)}), noise \in Tensors(n, {Fin(0)}),
              raw \in Tensors(ModelInputRows(Repeat(Fin(1), n), gs), PredVals) :
               /\ pn' = PredictNoise(latents, noise, time_step,
                                     Repeat(Embed("a"), e * n), flag, gs,
                                     NumTrainTimesteps, raw, tolerant)
               /\ UNCHANGED <<attrVars, schedVars, bridgeVars, emb, variantVars, samplingVars>>

NextPredict == PredictCall

SpecPredict == InitPredict /\ [][NextPredict]_vars

\* the SDS variants: one call of a variant on a pipeline that is fresh
\* (num_train_timesteps not yet set by sds_poc) or was used before
CorridorLow == <<<<1, RatioDen>>, <<2, RatioDen>>>>
CorridorHigh == <<<<RatioDen - 1, RatioDen>>, <<RatioDen, RatioDen>>>>
MaxAnneal == <<"m", "a", "x", "_", ".", "3", "_", "1">>

InitVariants ==
    /\ \/ /\ num_train_timesteps = Some(NumTrainTimesteps)
          /\ t_range = Some(CorridorLow)
          /\ t_schedule = Some(MaxAnneal)
       \/ /\ num_train_timesteps = Some(NumTrainTimesteps)
          /\ t_range = Some(CorridorHigh)
          /\ t_schedule = Some(Randint)
       \/ /\ num_train_timesteps = None
          /\ t_range = Some(CorridorLow)
          /\ t_schedule = Some(Randint)
    /\ sched = NoCall @@ [step |-> 0]
    /\ ctx = <<>>
    /\ bridge = BridgeIdle
    /\ emb = EmbIdle
    /\ pn = PnIdle
    /\ call = CallIdle
    /\ iv = IvIdle
    /\ loop = LoopIdle

\* the encoded image: latents of n rows
Latents(n) == [i \in 1..n |-> Fin(i)]

\* samples of torch.randn_like for a batch of n
NoiseTensors(n) == {[i \in 1..n |-> Fin(1)], [i \in 1..n |-> Fin(-i)]}

\* predictions of the denoising network for a model input of n rows: finite
\* and distinct, or with a NaN, +Inf or -Inf entry
Prediction(k, n) ==
    [i \in 1..n |->
        IF k = 1 THEN Fin(i)
        ELSE IF i < n THEN Fin(1 - k)
        ELSE IF k = 2 THEN NaN
        ELSE IF k = 3 THEN PosInf
        ELSE NegInf]

\* a prompt for a batch of n: one string, or a list of n strings
BatchPrompts(n) == {Str("a"), List(Repeat("a", n))}

VariantScales == {Fin(1), Fin(PlainGuidanceScale)}

\* the ranges '2_0' and '3_1'
AlphaRange == <<"2", "_", "0">>
GsRange == <<"3", "_", "1">>

SdsPocArgs(n, step, loss_type) ==
    {[step |-> step, prompts |-> prompts, negative_prompts |-> None,
      latents_o |-> latents_o, guidance_scale |-> guidance_scale,
      grad_scale |-> Fin(2), loss_type |-> loss_type,
      alpha_range |-> alpha_range, gs_range |-> gs_range,
      start_latent_interpolation |-> StartStep, total_step |-> TotalStep] :
        prompts \in BatchPrompts(n), guidance_scale \in VariantScales,
        latents_o \in IF loss_type = 1 THEN {None, Some(Latents(n))} ELSE {None},
        alpha_range \in IF loss_type = 1 THEN {NoRange, AlphaRange} ELSE {NoRange},
        gs_range \in IF loss_type = 1 THEN {NoRange, GsRange} ELSE {NoRange}}

\* the model input of the oracle calls of sds_poc has 2n rows when the
\* guidance scale passed to predict_noise is > 1
SdsPocRows(a, n) ==
    IF a.loss_type = 0 THEN 2 * n
    ELSE IF a.gs_range = NoRange THEN n
    ELSE LET gs == RangeValue(a.gs_range, a.step, a.total_step)
         IN  IF gs.kind = "ok" THEN ModelInputRows(Latents(n), gs.value) ELSE n

SdsPocCall ==
    /\ call.op = "none"
    /\ \E n \in 1..MaxBatch, step \in 0..MaxStep, loss_type \in {0, 1, 2} :
         \E a \in SdsPocArgs(n, step, loss_type), noise \in NoiseTensors(n),
            k1 \in 1..4, tolerant \in BOOLEAN :
           \E k2 \in IF loss_type = 1 /\ a.latents_o # None THEN {1, 3} ELSE {1},
              none_error \in IF loss_type = 1 /\ a.latents_o = None
                             THEN {"AttributeError", "TypeError"} ELSE {"TypeError"},
              so \in ScheduleCall(step, Some(NumTrainTimesteps), t_range, t_schedule) :
               /\ num_train_timesteps' = Some(NumTrainTimesteps)
               /\ Return("sds_poc", a, Latents(n),
                         SdsPoc(a, NumTrainTimesteps, so, Latents(n), noise,
                                Prediction(k1, SdsPocRows(a, n)),
                                Prediction(k2, SdsPocRows(a, n)), tolerant, none_error))
               /\ UNCHANGED <<t_range, t_schedule, schedVars, noiseVars, samplingVars>>

\* the t_range argument of score_distillation_sampling and
\* guided_score_distillation_sampling: the lowest 1/RatioDen of the timesteps
ArgCorridor == <<<<0, RatioDen>>, <<1, RatioDen>>>>

PlainArgs(n, step) ==
    {[step |-> step, prompt |-> prompt, negative_prompt |-> None,
      guidance_scale |-> guidance_scale, as_latent |-> as_latent,
      grad_scale |-> Fin(2), t_range |-> ArgCorridor] :
        prompt \in BatchPrompts(n), guidance_scale \in VariantScales,
        as_latent \in BOOLEAN}

\* the scheduler's T as schedule_timestep reads it; 0 stands for a T that is
\* never read because the call fails before
AttrT == IF num_train_timesteps = None THEN 0 ELSE num_train_timesteps[1]

SdsCall ==
    /\ call.op = "none"
    /\ \E n \in 1..MaxBatch, step \in 0..MaxStep :
         \E a \in PlainArgs(n, step), noise \in NoiseTensors(n), k \in 1..4,
            tolerant \in BOOLEAN,
            so \in ScheduleCall(step, num_train_timesteps, t_range, t_schedule) :
           /\ Return("score_distillation_sampling", a, Latents(n),
                     SdsPlain(a, AttrT, so, Latents(n), noise,
                              Prediction(k, ModelInputRows(Latents(n), a.guidance_scale)),
                              tolerant, None))
           /\ UNCHANGED <<attrVars, schedVars, noiseVars, samplingVars>>

GuidedCall ==
    /\ call.op = "none"
    /\ \E n \in 1..MaxBatch, step \in 0..MaxStep :
         \E a \in PlainArgs(n, step), noise \in NoiseTensors(n), k \in 1..4,
            tolerant \in BOOLEAN,
            so \in ScheduleCall(step, num_train_timesteps, t_range, t_schedule) :
           /\ Return("guided_score_distillation_sampling",
                     a @@ [latent_ni |-> Latents(n)], Latents(n),
                     SdsPlain(a, AttrT, so, Latents(n), noise,
                              Prediction(k, ModelInputRows(Latents(n), a.guidance_scale)),
                              tolerant, Some(Latents(n))))
           /\ UNCHANGED <<attrVars, schedVars, noiseVars, samplingVars>>

Args0907(n, step) ==
    {[step |-> step, prompt |-> List(Repeat("a", n)),
      ref_prompt |-> List(Repeat("b", n)), negative_prompt |-> None,
      start_code |-> Latents(n), guidance_scale |-> guidance_scale,
      grad_scale |-> Fin(2)] :
        guidance_scale \in VariantScales}

Sds0907Call ==
    /\ call.op = "none"
    /\ \E n \in 1..MaxBatch, step \in 0..MaxStep :
         \E a \in Args0907(n, step), noises \in [1..4 -> NoiseTensors(n)],
            ks \in [1..4 -> {1, 3}], tolerant \in BOOLEAN,
            so \in ScheduleCall(step, num_train_timesteps, t_range, t_schedule) :
           /\ Return("score_distillation_sampling_0907", a, Latents(n),
                     Sds0907(a, AttrT, so, Latents(n), noises,
                             [i \in 1..4 |->
                                 Prediction(ks[i], ModelInputRows(Latents(n),
                                                                  a.guidance_scale))],
                             tolerant))
           /\ UNCHANGED <<attrVars, schedVars, noiseVars, samplingVars>>

NextVariants == SdsPocCall \/ SdsCall \/ GuidedCall \/ Sds0907Call

SpecVariants == InitVariants /\ [][NextVariants]_vars

\* max_value and min_value of get_interactive_value
RangeEnds == {Fin(0), Fin(1), Fin(2)}

InitInteractive == InitBridge

InteractiveCall ==
    /\ iv.op = "none"
    /\ \E max_value \in RangeEnds, min_value \in RangeEnds,
          step \in 0..MaxStep, total_step \in 0..TotalStep,
          denoise_step \in 0..MaxDenoise, total_denoise_step \in 0..MaxDenoise :
          /\ iv' = IvRecord(max_value, min_value, step, total_step, denoise_step,
                            total_denoise_step,
                            GetInteractiveValue(max_value, min_value, step, total_step,
                                                denoise_step, total_denoise_step))
          /\ UNCHANGED <<attrVars, schedVars, bridgeVars, noiseVars, variantVars, loop>>

NextInteractive == InteractiveCall

SpecInteractive == InitInteractive /\ [][NextInteractive]_vars

\* the lengths scheduler.timesteps can have after
\* set_timesteps(num_inference_steps) on a scheduler of the given order
TimestepCounts(num_inference_steps, order) ==
    {n \in (num_inference_steps * order - 1)..(num_inference_steps * order + 1) :
        n >= 1}

InitSampling == InitBridge

SamplingCall ==
    /\ loop.pc = "idle"
    /\ \E num_inference_steps \in 1..MaxInferenceSteps, order \in {1, 2},
          has_callback \in BOOLEAN, callback_steps \in 1..MaxCallbackSteps :
          \E n \in TimestepCounts(num_inference_steps, order) :
              EnterLoop(num_inference_steps, order, n, has_callback, callback_steps)
    /\ UNCHANGED <<attrVars, schedVars, bridgeVars, noiseVars, variantVars, iv>>

SamplingStep ==
    /\ Iterate
    /\ UNCHANGED <<attrVars, schedVars, bridgeVars, noiseVars, variantVars, iv>>

SamplingReturn ==
    /\ LeaveLoop
    /\ UNCHANGED <<attrVars, schedVars, bridgeVars, noiseVars, variantVars, iv>>

NextSampling == SamplingCall \/ SamplingStep \/ SamplingReturn

SpecSampling == InitSampling /\ [][NextSampling]_vars

\* a pipeline as constructed, and one whose client has set t_range and
\* t_schedule: no variant has run, num_train_timesteps is unset
InitSequence ==
    /\ num_train_timesteps = None
    /\ \/ t_range = None /\ t_schedule = None
       \/ t_range = Some(CorridorLow) /\ t_schedule = Some(Randint)
    /\ sched = NoCall @@ [step |-> 0]
    /\ ctx = <<>>
    /\ bridge = BridgeIdle
    /\ emb = EmbIdle
    /\ pn = PnIdle
    /\ call = CallIdle
    /\ iv = IvIdle
    /\ loop = LoopIdle

\* the variants called one after another on one pipeline, each on a batch of
\* one image with a finite prediction
SeqSdsPoc ==
    \E step \in 0..MaxStep :
      \E a \in SdsPocArgs(1, step, 0), noise \in NoiseTensors(1),
         so \in ScheduleCall(step, Some(NumTrainTimesteps), t_range, t_schedule) :
          /\ num_train_timesteps' = Some(NumTrainTimesteps)
          /\ Return("sds_poc", a, Latents(1),
                    SdsPoc(a, NumTrainTimesteps, so, Latents(1), noise,
                           Prediction(1, 2), Prediction(1, 2), TRUE, "TypeError"))
          /\ UNCHANGED <<t_range, t_schedule, schedVars, noiseVars, samplingVars>>

SeqSds ==
    \E step \in 0..MaxStep :
      \E a \in PlainArgs(1, step), noise \in NoiseTensors(1),
         so \in ScheduleCall(step, num_train_timesteps, t_range, t_schedule) :
          /\ Return("score_distillation_sampling", a, Latents(1),
                    SdsPlain(a, AttrT, so, Latents(1), noise,
                             Prediction(1, ModelInputRows(Latents(1), a.guidance_scale)),
                             TRUE, None))
          /\ UNCHANGED <<attrVars, schedVars, noiseVars, samplingVars>>

SeqGuided ==
    \E step \in 0..MaxStep :
      \E a \in PlainArgs(1, step), noise \in NoiseTensors(1),
         so \in ScheduleCall(step, num_train_timesteps, t_range, t_schedule) :
          /\ Return("guided_score_distillation_sampling",
                    a @@ [latent_ni |-> Latents(1)], Latents(1),
                    SdsPlain(a, AttrT, so, Latents(1), noise,
                             Prediction(1, ModelInputRows(Latents(1), a.guidance_scale)),
                             TRUE, Some(Latents(1))))
          /\ UNCHANGED <<attrVars, schedVars, noiseVars, samplingVars>>

Seq0907 ==
    \E step \in 0..MaxStep :
      \E a \in Args0907(1, step), noise \in NoiseTensors(1),
         so \in ScheduleCall(step, num_train_timesteps, t_range, t_schedule) :
          /\ Return("score_distillation_sampling_0907", a, Latents(1),
                    Sds0907(a, AttrT, so, Latents(1), [i \in 1..4 |-> noise],
                            [i \in 1..4 |->
                                Prediction(1, ModelInputRows(Latents(1),
                                                             a.guidance_scale))],
                            TRUE))
          /\ UNCHANGED <<attrVars, schedVars, noiseVars, samplingVars>>

NextSequence == SeqSdsPoc \/ SeqSds \/ SeqGuided \/ Seq0907

SpecSequence == InitSequence /\ [][NextSequence]_vars

----------------------------------------------------------------------------
(* Properties of the scheduler *)

Called == sched.kind # "none"

MinRatio == t_range[1][1]
MaxRatio == t_range[1][2]
Policy == t_schedule[1]
NumT == num_train_timesteps[1]

\* the anneal value v and switch step s of a recognized anneal policy
AnnealValue == FloatVal(Split(Policy)[2])
AnnealSwitch == IntVal(Split(Policy)[3])
IsMax == Split(Policy)[1] = <<"m", "a", "x">>

\* t lies in [r1*T, r2*T], both ends inclusive, for ratios r1 and r2
InCorridor(t, r1, r2, T) == r1[1] * T <= t * r1[2] /\ t * r2[2] <= r2[1] * T

\* C1 as stated: under 'randint' every call returns a timestep t with
\* min_ratio*T <= t <= max_ratio*T. Violated when min_ratio*T is no integer:
\* int() truncates it, and the draw can return the truncated value.
C1_RandintInCorridor ==
    (Called /\ Policy = Randint) =>
        /\ sched.kind = "ok"
        /\ InCorridor(sched.t, MinRatio, MaxRatio, NumT)

\* C1 amended: under 'randint' every call returns a timestep t with
\* min_ratio*T - 1 < t <= max_ratio*T, that is
\* floor(min_ratio*T) <= t <= floor(max_ratio*T).
C1_RandintInTruncatedCorridor ==
    (Called /\ Policy = Randint) =>
        /\ sched.kind = "ok"
        /\ MinRatio[1] * NumT < (sched.t + 1) * MinRatio[2]
        /\ sched.t * MaxRatio[2] <= MaxRatio[1] * NumT

\* a 'randint' call that returned a timestep below min_ratio*T
C1_Witness ==
    /\ Policy = Randint
    /\ sched.kind = "ok"
    /\ sched.t * MinRatio[2] < MinRatio[1] * NumT
    /\ sched.t < sched.hi

\* C2: under an anneal policy with value v and switch step s a timestep is
\* always returned; before step s the corridor is the randint corridor; from
\* step s on max_anneal replaces only the upper bound by v*T and min_anneal
\* only the lower bound by v*T.
C2_AnnealCorridor ==
    (Called /\ IsAnneal(Policy)) =>
        LET T  == NumT
            lo == StepOf(T, MinRatio)
            hi == StepOf(T, MaxRatio)
            v  == StepOf(T, AnnealValue)
        IN  /\ sched.kind = "ok"
            /\ sched.step < AnnealSwitch => (sched.lo = lo /\ sched.hi = hi)
            /\ (sched.step >= AnnealSwitch /\ IsMax) =>
                   (sched.lo = lo /\ sched.hi = v)
            /\ (sched.step >= AnnealSwitch /\ ~IsMax) =>
                   (sched.lo = v /\ sched.hi = hi)

\* C3: every policy string that is not recognized fails with
\* NotImplementedError and with no other error.
C3_UnrecognizedIsNotImplemented ==
    (Called /\ ~Recognized(Policy)) => sched.kind = "NotImplementedError"

\* C4: every timestep returned is an index into alphas_cumprod, an integer
\* in [0, NumT), for every policy whose ratios lie in [0, 1].
C4_TimestepIsIndex ==
    (sched.kind = "ok" /\ (IsAnneal(Policy) => RatioLeq(AnnealValue, <<1, 1>>)))
        => sched.t \in 0..(NumT - 1)

----------------------------------------------------------------------------
(* Properties of the bridge *)

\* C5: the forward pass returns the placeholder 1 whatever the anchor tensor
\* and the precomputed gradient g are; the backward pass with upstream scalar
\* u returns exactly g*u, entry by entry, as the gradient of the anchor
\* tensor, and None as the gradient of g.
C5_BridgeRoundTrip ==
    /\ bridge.op # "none" => bridge.loss = <<<<0, 1, 1>>>>
    /\ bridge.op = "backward" =>
          /\ Len(bridge.grads) = 2
          /\ bridge.grads[2] = <<>>
          /\ Len(bridge.grads[1]) = 1
          /\ Len(bridge.grads[1][1]) = Len(bridge.gt_grad)
          /\ \A i \in 1..Len(bridge.gt_grad) :
                bridge.grads[1][1][i] = <<0, bridge.gt_grad[i][2] * bridge.upstream[2], 1>>

\* a backward pass with an upstream scale other than 1 on a gradient that
\* has a non-zero entry
C5_Witness ==
    /\ bridge.op = "backward"
    /\ bridge.upstream = <<0, 3, 1>>
    /\ \E i \in 1..Len(bridge.gt_grad) : bridge.gt_grad[i] = <<0, 2, 1>>
    /\ \E i \in 1..Len(bridge.gt_grad) : bridge.gt_grad[i] # bridge.input_tensor[i]

----------------------------------------------------------------------------
(* Properties of the conditioning builder and the prediction adapter *)

\* the denoising network returned a prediction in the last predict_noise call
UnetReturned == pn.kind # "none" /\ Len(pn.raw) > 0

\* C7: with guidance enabled (do_classifier_free_guidance) the raw prediction
\* is split into two equal halves, unconditional first, and the result is
\* uncond + guidance_scale*(cond - uncond) entry by entry; with guidance not
\* enabled the raw prediction is returned unchanged; for every guidance_scale.
C7_GuidanceCombination ==
    UnetReturned =>
        LET n == Len(pn.raw)
            h == n \div 2
            g == pn.guidance_scale
        IN  IF pn.do_classifier_free_guidance
            THEN /\ pn.kind = "ok"
                 /\ n = 2 * h
                 /\ Len(pn.out) = h
                 /\ \A i \in 1..h :
                       pn.out[i] = FAdd(pn.raw[i],
                                        FMul(g, FSub(pn.raw[h + i], pn.raw[i])))
            ELSE pn.kind = "ok" /\ pn.out = pn.raw

\* the texts a prompt argument stands for in a batch of n: a single string is
\* the prompt of every row
TextsOf(prompt, n) ==
    IF prompt.list THEN prompt.items ELSE Repeat(prompt.items[1], n)

\* C8: for a batch of size B, with guidance_scale > 1 the returned batch has
\* 2B rows, the first B the unconditional embeddings (of the negative prompt,
\* by default the empty string B times) and the last B the conditional ones;
\* with guidance_scale <= 1 it is the B conditional embeddings; for a single
\* prompt string as for a list of B prompts.
C8_EmbeddingBatch ==
    (emb.op # "none" /\ (emb.prompt.list => Len(emb.prompt.items) = emb.batch_size)
                     /\ emb.negative_prompt = None) =>
        LET B    == emb.batch_size
            cond == TextsOf(emb.prompt, B)
        IN  IF FGt(emb.guidance_scale, Fin(1))
            THEN /\ Len(emb.out) = 2 * B
                 /\ \A i \in 1..B : emb.out[i] = Embed("")
                 /\ \A i \in 1..B : emb.out[B + i] = Embed(cond[i])
            ELSE /\ Len(emb.out) = B
                 /\ \A i \in 1..B : emb.out[i] = Embed(cond[i])

----------------------------------------------------------------------------
(* Properties of the gradient estimators *)

\* a variant returned a loss: its gradient went through the bridge
Estimated == call.op # "none" /\ call.kind = "ok"

Delta == call.op = "score_distillation_sampling_0907"

\* C6: in every variant, in the gradient handed to the bridge every NaN, +Inf
\* or -Inf entry of the estimate has been replaced by 0 and every finite
\* entry is unchanged.
C6_NonFiniteBecomesZero ==
    Estimated =>
        /\ bridge.op = "forward"
        /\ bridge.gt_grad = call.grad
        /\ Len(call.grad) = Len(call.grad_est)
        /\ \A i \in 1..Len(call.grad_est) :
              call.grad[i] = IF IsFin(call.grad_est[i]) THEN call.grad_est[i]
                             ELSE Fin(0)

\* C9: within one gradient estimate of any variant exactly one noise sample
\* is drawn, and every oracle invocation of the estimate noises its latents
\* with that sample.
C9_OneNoiseSample ==
    Estimated =>
        /\ Len(call.draws) = 1
        /\ \A i \in 1..Len(call.oracle) :
              /\ call.oracle[i].noise_draw = 1
              /\ call.oracle[i].noise = call.draws[1]

\* C10: in score_distillation_sampling_0907, for the optimized latents and
\* for start_code, the current prediction noises and queries the network at
\* t and the pre prediction at t - 20; the gradient is the sum over the two
\* branches of grad_scale * w * (pred_pre - pred_cur), w = 1 - alphas[t].
C10_PreAtLag ==
    (Estimated /\ Delta) =>
        LET o == call.oracle
            at(i, src, time_step) ==
                /\ o[i].src = src
                /\ o[i].add_noise_t = time_step
                /\ o[i].unet_t = time_step
            w == FSub(Fin(1), AlphasCumprod(call.t, NumT))
        IN  /\ Len(o) = 4
            /\ at(1, "latents", call.t)
            /\ at(2, "latents", call.t - Lag)
            /\ at(3, "start_code", call.t)
            /\ at(4, "start_code", call.t - Lag)
            /\ call.grad_est =
                  Zip(FAdd,
                      GradEstimate(call.args.grad_scale, w, o[2].out, o[1].out),
                      GradEstimate(call.args.grad_scale, w, o[4].out, o[3].out))

\* a completed call of sds_poc with loss_type = 1
Interpolated == Estimated /\ call.op = "sds_poc" /\ call.args.loss_type = 1

\* the gradient estimate of the completed sds_poc call for the prediction
\* noise_final
EstimateOf(noise_final) ==
    GradEstimate(call.args.grad_scale, FSub(Fin(1), AlphasCumprod(call.t, NumT)),
                 noise_final, call.draws[1])

\* C11: in sds_poc with loss_type = 1, whenever step <=
\* start_latent_interpolation the prediction the gradient is formed from is
\* pred_current alone, whatever alpha_range and the reference latents are;
\* only when step > start_latent_interpolation it is the blend
\* (1 - alpha) * pred_current + alpha * pred_reference.
C11_BlendOnlyAfterStart ==
    Interpolated =>
        LET a == call.args
            o == call.oracle
        IN  /\ Len(o) = 2
            /\ a.step <= a.start_latent_interpolation =>
                  call.grad_est = EstimateOf(o[1].out)
            /\ a.step > a.start_latent_interpolation =>
                  call.grad_est =
                      EstimateOf(Blend(RangeValue(a.alpha_range, a.step,
                                                  a.total_step).value,
                                       o[1].out, o[2].out))

\* a completed interpolated call at step = start_latent_interpolation whose
\* blend would differ from pred_current
C11_Witness ==
    /\ Interpolated
    /\ call.args.step = call.args.start_latent_interpolation
    /\ call.args.alpha_range # NoRange
    /\ Blend(RangeValue(call.args.alpha_range, call.args.step,
                        call.args.total_step).value,
             call.oracle[1].out, call.oracle[2].out) # call.oracle[1].out

----------------------------------------------------------------------------
(* Properties of the interactive value policy *)

\* max_value - (max_value - min_value) * sqrt(step / total_step) of the last
\* get_interactive_value call
BaseValue ==
    FSub(iv.max_value,
         FMul(FSub(iv.max_value, iv.min_value), Sqrt(Rat(iv.step, iv.total_step))))

\* C12: with total_step >= 1 and step >= 0, get_interactive_value with
\* total_denoise_step = 0 raises nothing and returns the base value
\* max_value - (max_value - min_value) * sqrt(step / total_step), which at
\* step 0 is max_value; with total_denoise_step # 0 it returns
\* base * (1 - denoise_step / total_denoise_step).
C12_ZeroDivisionRecovered ==
    (iv.op # "none" /\ iv.total_step >= 1 /\ iv.step >= 0) =>
        /\ iv.kind = "ok"
        /\ iv.total_denoise_step = 0 => iv.value = BaseValue
        /\ (iv.total_denoise_step = 0 /\ iv.step = 0) => iv.value = iv.max_value
        /\ iv.total_denoise_step # 0 =>
              iv.value = FMul(BaseValue,
                              FSub(Fin(1), Rat(iv.denoise_step, iv.total_denoise_step)))

\* a call with total_denoise_step = 0 and a non-zero denoise_step, past step
\* 0, on a range that is no single point
C12_Witness ==
    /\ iv.op # "none"
    /\ iv.total_step >= 1
    /\ iv.step >= 1
    /\ iv.total_denoise_step = 0
    /\ iv.denoise_step > 0
    /\ iv.max_value # iv.min_value
    /\ iv.kind = "ok"

----------------------------------------------------------------------------
(* Properties of sequences of variant calls *)

\* the variant called last takes a t_range argument
HasCorridorArgument ==
    call.op \in {"score_distillation_sampling", "guided_score_distillation_sampling"}

\* C13: every variant call, the first on a pipeline as constructed included,
\* depends on its own arguments and draws only: it never fails for a pipeline
\* attribute that no earlier variant call has written, and it picks its
\* timestep in the corridor of its own t_range argument.
C13_SelfContained ==
    call.op # "none" =>
        /\ call.kind # "AttributeError"
        /\ (call.kind = "ok" /\ HasCorridorArgument) =>
              call.t \in StepOf(NumT, call.args.t_range[1])
                         ..StepOf(NumT, call.args.t_range[2])

----------------------------------------------------------------------------
(* Properties of gradient tracking *)

\* C14: in every variant the text-embedding computation, the forward-noising
\* step and the denoising-network call run with gradient tracking disabled,
\* and the latent encode of the rendered image with gradient tracking enabled.
C14_OracleWithoutGradient ==
    call.op # "none" =>
        /\ \A i \in 1..Len(call.embs) : call.embs[i].no_grad
        /\ \A i \in 1..Len(call.oracle) : call.oracle[i].no_grad
        /\ call.encode_grad_enabled

----------------------------------------------------------------------------
(* Properties of the sampling loop *)

\* the number of callback invocations made for the iteration of index j
CallsFor(j) == Cardinality({k \in 1..Len(loop.calls) : loop.calls[k][1] = j})

\* C15: with a callback supplied, over the iterations completed so far the
\* callback has been called exactly once for each index that is a multiple of
\* callback_steps and not at all for the others, each time with
\* (i, timesteps[i], the latents after the scheduler update of iteration i),
\* for every scheduler order and number of warm-up steps.
C15_CallbackEveryCallbackSteps ==
    (loop.pc # "idle" /\ loop.has_callback) =>
        /\ \A j \in 0..(loop.i - 1) :
              CallsFor(j) = IF j % loop.callback_steps = 0 THEN 1 ELSE 0
        /\ \A k \in 1..Len(loop.calls) :
              LET c == loop.calls[k]
              IN  /\ c[1] \in 0..(loop.i - 1)
                  /\ c[2] = TimestepAt(c[1], loop.n)
                  /\ c[3] = c[1] + 1

----------------------------------------------------------------------------
(* Properties of the guidance decisions of sds_poc *)

\* C16: in every oracle call made by sds_poc the guidance decision is the
\* same where the embedding batch is built (the caller's guidance_scale > 1),
\* where the noisy latents are doubled (the scale given to predict_noise > 1)
\* and where the prediction is split (do_classifier_free_guidance); so the
\* model input has as many rows as the embedding batch, 2B with guidance and
\* B without.
C16_GuidanceDecisionsAgree ==
    call.op = "sds_poc" =>
        \A i \in 1..Len(call.oracle) :
            LET o        == call.oracle[i]
                B        == Len(o.latents)
                embedded == FGt(call.args.guidance_scale, Fin(1))
                doubled  == FGt(o.guidance_scale, Fin(1))
                split    == o.do_classifier_free_guidance
            IN  /\ embedded = doubled
                /\ doubled = split
                /\ o.rows_in = Len(o.embeddings)
                /\ o.rows_in = IF split THEN 2 * B ELSE B

----------------------------------------------------------------------------
(* Properties of the variable assignments of sds_poc *)

\* C17: in sds_poc, for every loss_type, alpha_range, gs_range and step,
\* gs_value, alpha_value and noise_final are assigned before they are read:
\* no call ends with the error of reading an unassigned local variable.
C17_AssignedBeforeRead ==
    call.op = "sds_poc" => call.kind # "UnboundLocalError"

====
